---- MODULE Spec2Model ----
(***************************************************************************)
(* Model of the data-normalisation pipeline of map-chart-tool:             *)
(* DataLoader (src/data_loader.py).  Text is a sequence of one-character   *)
(* strings; numbers read from CSV cells are integers counted in hundredths *)
(* (10.7 is 1070); a pandas Timestamp is a record [day, sec] of days since *)
(* 1970-01-01 and seconds into that day.                                   *)
(***************************************************************************)
EXTENDS Integers, Sequences, FiniteSets, TLC

VARIABLES
    dir_exists,        \* os.listdir(self.data_folder) succeeds
    files,             \* directory content: file name -> [present, mtime, content]
    df_long,           \* DataLoader.df_long
    df_id,             \* which object df_long refers to (0 = None)
    last_loaded_time,  \* DataLoader.last_loaded_time
    outcome,           \* the call that has just returned, and how it ended
    hist,              \* the directory since load_all last returned: "clean", "touched"
                       \* (one file touched, nothing else) or "changed"
    arg,               \* input of the function under study (function-level specifications)
    ret                \* its result

vars == <<dir_exists, files, df_long, df_id, last_loaded_time, outcome, hist, arg, ret>>

----------------------------------------------------------------------------
(* Bounds of the model *)

\* modification times are BaseTime + k * HalfDay for k in 0..MaxTick
MaxTick == 1

----------------------------------------------------------------------------
(* Text *)

Max(S) == CHOOSE x \in S : \A y \in S : y <= x
Min(S) == CHOOSE x \in S : \A y \in S : x <= y

Digits == {"0", "1", "2", "3", "4", "5", "6", "7", "8", "9"}

IsDigit(c) == c \in Digits

DigitVal(c) ==
    CASE c = "0" -> 0 [] c = "1" -> 1 [] c = "2" -> 2 [] c = "3" -> 3 [] c = "4" -> 4
      [] c = "5" -> 5 [] c = "6" -> 6 [] c = "7" -> 7 [] c = "8" -> 8 [] c = "9" -> 9

LowerLetters == <<"a", "b", "c", "d", "e", "f", "g", "h", "i", "j", "k", "l", "m",
                  "n", "o", "p", "q", "r", "s", "t", "u", "v", "w", "x", "y", "z">>
UpperLetters == <<"A", "B", "C", "D", "E", "F", "G", "H", "I", "J", "K", "L", "M",
                  "N", "O", "P", "Q", "R", "S", "T", "U", "V", "W", "X", "Y", "Z">>

\* the characters of the model in code-point order (str comparison, sorted())
CodePoints == <<" ", ",", "-", ".">> \o
              <<"0", "1", "2", "3", "4", "5", "6", "7", "8", "9">> \o
              UpperLetters \o <<"_">> \o LowerLetters

Ord(c) == CHOOSE i \in 1..Len(CodePoints) : CodePoints[i] = c

LowerChar(c) ==
    IF \E i \in 1..26 : UpperLetters[i] = c
    THEN LowerLetters[CHOOSE i \in 1..26 : UpperLetters[i] = c]
    ELSE c

UpperChar(c) ==
    IF \E i \in 1..26 : LowerLetters[i] = c
    THEN UpperLetters[CHOOSE i \in 1..26 : LowerLetters[i] = c]
    ELSE c

\* str.lower()
Lower(s) == [i \in 1..Len(s) |-> LowerChar(s[i])]

\* str.upper()
Upper(s) == [i \in 1..Len(s) |-> UpperChar(s[i])]

\* str.endswith(suffix)
EndsWith(s, suffix) ==
    /\ Len(s) >= Len(suffix)
    /\ SubSeq(s, Len(s) - Len(suffix) + 1, Len(s)) = suffix

\* sub in s
Contains(s, sub) ==
    \E i \in 1..(Len(s) - Len(sub) + 1) : SubSeq(s, i, i + Len(sub) - 1) = sub

\* s < t for two str
RECURSIVE StrLess(_, _)
StrLess(s, t) ==
    IF t = <<>> THEN FALSE
    ELSE IF s = <<>> THEN TRUE
    ELSE IF s[1] # t[1] THEN Ord(s[1]) < Ord(t[1])
    ELSE StrLess(Tail(s), Tail(t))

ExtCsv == <<".", "c", "s", "v">>

----------------------------------------------------------------------------
(* Date resolution: _parse_date_from_filename and its mtime fallback *)

SecondsPerDay == 86400
\* date(1970, 1, 1).toordinal()
EpochOrdinal == 719163

NoDate == [ok |-> FALSE, day |-> 0]

IsLeap(y) == y % 4 = 0 /\ (y % 100 # 0 \/ y % 400 = 0)

DaysInMonth(y, m) ==
    IF m = 2 THEN (IF IsLeap(y) THEN 29 ELSE 28)
    ELSE IF m \in {4, 6, 9, 11} THEN 30 ELSE 31

RECURSIVE DaysBeforeMonth(_, _)
DaysBeforeMonth(y, m) ==
    IF m = 1 THEN 0 ELSE DaysBeforeMonth(y, m - 1) + DaysInMonth(y, m - 1)

\* datetime(year, month, day) raises ValueError outside these ranges
ValidDate(y, m, d) ==
    /\ y >= 1 /\ y <= 9999
    /\ m >= 1 /\ m <= 12
    /\ d >= 1 /\ d <= DaysInMonth(y, m)

\* datetime(year, month, day).date() as days since 1970-01-01
EpochDay(y, m, d) ==
    365 * (y - 1) + ((y - 1) \div 4) - ((y - 1) \div 100) + ((y - 1) \div 400)
      + DaysBeforeMonth(y, m) + d - EpochOrdinal

RECURSIVE IntOf(_)
\* int(s) of a run of digits
IntOf(s) == IF s = <<>> THEN 0 ELSE 10 * IntOf(SubSeq(s, 1, Len(s) - 1)) + DigitVal(s[Len(s)])

\* re.sub(r'\.csv$', '', fname, flags=re.I)
StripCsv(fname) ==
    IF EndsWith(Lower(fname), ExtCsv) THEN SubSeq(fname, 1, Len(fname) - 4) ELSE fname

AllDigits(s, i, n) == i >= 1 /\ i + n - 1 <= Len(s) /\ \A j \in i..(i + n - 1) : IsDigit(s[j])

NonDigitAt(s, i) == i >= 1 /\ i <= Len(s) /\ ~IsDigit(s[i])

\* (\d{1,2})[^\d](\d{1,2})[^\d](\d{4}) anchored at i, with a digits of day and b of month
MatchAt(s, i, a, b) ==
    /\ AllDigits(s, i, a)
    /\ NonDigitAt(s, i + a)
    /\ AllDigits(s, i + a + 1, b)
    /\ NonDigitAt(s, i + a + b + 1)
    /\ AllDigits(s, i + a + b + 2, 4)

\* the groups of the match anchored at i; \d{1,2} is greedy: two digits are tried first
GroupsAt(s, i) ==
    LET ab == IF MatchAt(s, i, 2, 2) THEN <<2, 2>>
              ELSE IF MatchAt(s, i, 2, 1) THEN <<2, 1>>
              ELSE IF MatchAt(s, i, 1, 2) THEN <<1, 2>>
              ELSE IF MatchAt(s, i, 1, 1) THEN <<1, 1>>
              ELSE <<0, 0>>
        a == ab[1]
        b == ab[2]
    IN  IF a = 0 THEN [found |-> FALSE, day |-> 0, month |-> 0, year |-> 0]
        ELSE [found |-> TRUE,
              day   |-> IntOf(SubSeq(s, i, i + a - 1)),
              month |-> IntOf(SubSeq(s, i + a + 1, i + a + b)),
              year  |-> IntOf(SubSeq(s, i + a + b + 2, i + a + b + 5))]

RECURSIVE ReSearch(_, _)
\* re.search: the match with the leftmost start at or after i
ReSearch(s, i) ==
    IF i > Len(s) THEN [found |-> FALSE, day |-> 0, month |-> 0, year |-> 0]
    ELSE IF GroupsAt(s, i).found THEN GroupsAt(s, i)
    ELSE ReSearch(s, i + 1)

\* _parse_date_from_filename with the groups read as month, day, year
_parse_date_month_first(fname) ==
    LET m == ReSearch(StripCsv(fname), 1)
    IN  IF m.found /\ ValidDate(m.year, m.day, m.month)
        THEN [ok |-> TRUE, day |-> EpochDay(m.year, m.day, m.month)]
        ELSE NoDate

_parse_date_from_filename(fname) ==
    LET m == ReSearch(StripCsv(fname), 1)
    IN  IF m.found /\ ValidDate(m.year, m.month, m.day)
        THEN [ok |-> TRUE, day |-> EpochDay(m.year, m.month, m.day)]
        ELSE NoDate

\* pd.to_datetime(os.path.getmtime(path), unit='s')
TimestampOfSeconds(t) == [day |-> t \div SecondsPerDay, sec |-> t % SecondsPerDay]

\* pd.to_datetime(date) of a datetime.date: midnight of that day
TimestampOfDate(day) == [day |-> day, sec |-> 0]

\* the 'Date' every row of a file gets (date resolved once per file)
FileDate(fname, mtime) ==
    LET date == _parse_date_from_filename(fname)
    IN  IF date.ok THEN TimestampOfDate(date.day)
        ELSE TimestampOfDate(TimestampOfSeconds(mtime).day)

----------------------------------------------------------------------------
(* CSV cells as pd.read_csv hands them over *)

\* r.get(<a column the file does not have>)
None == [k |-> "none", v |-> 0, s |-> <<>>]
\* an empty cell
NaN == [k |-> "nan", v |-> 0, s |-> <<>>]
\* a cell of a numeric column; v counts hundredths
Num(v) == [k |-> "num", v |-> v, s |-> <<>>]
\* a cell of a text column
Str(s) == [k |-> "str", v |-> 0, s |-> s]

\* a Python float: nan, or v hundredths
FloatNaN == [nan |-> TRUE, v |-> 0]
Float(v) == [nan |-> FALSE, v |-> v]

RECURSIVE LStrip(_)
LStrip(s) == IF s # <<>> /\ s[1] = " " THEN LStrip(Tail(s)) ELSE s

RECURSIVE RStrip(_)
RStrip(s) == IF s # <<>> /\ s[Len(s)] = " " THEN RStrip(SubSeq(s, 1, Len(s) - 1)) ELSE s

\* digits, at least one of them around at most one dot, at most two behind it:
\* "106.7", "10", "10.", ".5"
IsLiteral(s, dots) ==
    /\ Cardinality(dots) <= 1
    /\ \A i \in 1..Len(s) : IsDigit(s[i]) \/ i \in dots
    /\ Len(s) > Cardinality(dots)
    /\ \A i \in dots : Len(s) - i <= 2

\* the hundredths a literal with its dot at position dot stands for
LiteralValue(s, dot) ==
    100 * IntOf(SubSeq(s, 1, dot - 1))
      + (IF Len(s) - dot = 1 THEN 10 ELSE 1) * IntOf(SubSeq(s, dot + 1, Len(s)))

\* float of an unsigned literal
FloatOfUnsigned(s, dots) ==
    IF IsLiteral(s, dots)
    THEN [ok |-> TRUE, f |-> Float(LiteralValue(s, Min(dots \cup {Len(s) + 1})))]
    ELSE [ok |-> FALSE, f |-> FloatNaN]

Negated(r) == [ok |-> r.ok, f |-> [nan |-> r.f.nan, v |-> 0 - r.f.v]]

\* float of a literal with its sign
FloatOfSigned(t) ==
    IF t # <<>> /\ t[1] = "-"
    THEN Negated(FloatOfUnsigned(Tail(t), {i \in 1..(Len(t) - 1) : t[i + 1] = "."}))
    ELSE IF t # <<>> /\ t[1] = "+"
    THEN FloatOfUnsigned(Tail(t), {i \in 1..(Len(t) - 1) : t[i + 1] = "."})
    ELSE FloatOfUnsigned(t, {i \in 1..Len(t) : t[i] = "."})

\* float(s) of a str: surrounding blanks and a sign are accepted, a comma is not.
\* The cells of the model carry at most two decimals and no exponent, inf or nan.
FloatOfStr(s) == FloatOfSigned(RStrip(LStrip(s)))

\* float(x): TypeError on None, ValueError on text that is no number
PyFloat(cell) ==
    CASE cell.k = "none" -> [ok |-> FALSE, f |-> FloatNaN]
      [] cell.k = "nan"  -> [ok |-> TRUE, f |-> FloatNaN]
      [] cell.k = "num"  -> [ok |-> TRUE, f |-> Float(cell.v)]
      [] cell.k = "str"  -> FloatOfStr(cell.s)

\* comparisons with nan are False
FLt(x, c) == ~x.nan /\ x.v < c
FGt(x, c) == ~x.nan /\ x.v > c
FBetween(lo, x, hi) == ~x.nan /\ lo <= x.v /\ x.v <= hi

----------------------------------------------------------------------------
(* Coordinate validation, load_all lines 91-100; degrees in hundredths *)

SwapLatMin == 800
SwapLatMax == 1200
SwapLonMin == 10500
SwapLonMax == 10800
BoxLatMin == 1000
BoxLatMax == 1110
BoxLonMin == 10600
BoxLonMax == 10720

Rejected == [ok |-> FALSE, lon |-> FloatNaN, lat |-> FloatNaN]

\* lat < 8 or lat > 12 or lon < 105 or lon > 108
NeedsSwap(lon, lat) ==
    \/ FLt(lat, SwapLatMin) \/ FGt(lat, SwapLatMax)
    \/ FLt(lon, SwapLonMin) \/ FGt(lon, SwapLonMax)

\* InBox with the bounds of the swap test in place of its own
InBoxRegional(lon, lat) ==
    /\ FBetween(SwapLatMin, lat, SwapLatMax)
    /\ FBetween(SwapLonMin, lon, SwapLonMax)

\* 10 <= lat <= 11.1 and 106 <= lon <= 107.2
InBox(lon, lat) ==
    /\ FBetween(BoxLatMin, lat, BoxLatMax)
    /\ FBetween(BoxLonMin, lon, BoxLonMax)

\* the final test of a pair, line 97
Accept(lon, lat) ==
    IF InBox(lon, lat) THEN [ok |-> TRUE, lon |-> lon, lat |-> lat] ELSE Rejected

\* CheckPair with the swap written as two assignments: lon = lat; lat = lon
CheckPairSequentialSwap(lon, lat) ==
    IF NeedsSwap(lon, lat) THEN Accept(lat, lat) ELSE Accept(lon, lat)

\* CheckPair with the box test skipped for a pair that was swapped
CheckPairNoRecheck(lon, lat) ==
    IF NeedsSwap(lon, lat) THEN [ok |-> TRUE, lon |-> lat, lat |-> lon]
    ELSE Accept(lon, lat)

\* two floats, lines 95-98: swapped if out of the region, then tested
CheckPair(lon, lat) ==
    IF NeedsSwap(lon, lat) THEN Accept(lat, lon) ELSE Accept(lon, lat)

\* the try block of a row, lines 93-100: the cells of the lon and lat columns to the
\* pair stored, or Rejected where the row is skipped (continue)
ValidateCoords(lonCell, latCell) ==
    IF ~PyFloat(lonCell).ok \/ ~PyFloat(latCell).ok THEN Rejected
    ELSE CheckPair(PyFloat(lonCell).f, PyFloat(latCell).f)

----------------------------------------------------------------------------
(* Headers, file names and file contents of the model *)

\* the column names the loader looks for, and some it does not
Header ==
    [lon        |-> <<"l", "o", "n">>,
     lat        |-> <<"l", "a", "t">>,
     Lon        |-> <<"L", "o", "n">>,
     Lat        |-> <<"L", "a", "t">>,
     toa_do_x   |-> <<"t", "o", "a", "_", "d", "o", "_", "x">>,
     toa_do_y   |-> <<"t", "o", "a", "_", "d", "o", "_", "y">>,
     longitude  |-> <<"l", "o", "n", "g", "i", "t", "u", "d", "e">>,
     latitude   |-> <<"l", "a", "t", "i", "t", "u", "d", "e">>,
     x          |-> <<"x">>,
     y          |-> <<"y">>,
     NDVI       |-> <<"N", "D", "V", "I">>,
     LST        |-> <<"L", "S", "T">>,
     TVDI       |-> <<"T", "V", "D", "I">>,
     ndvi_hcm   |-> <<"n", "d", "v", "i", "_", "h", "c", "m">>,
     lst        |-> <<"l", "s", "t">>,
     ma_xa      |-> <<"m", "a", "_", "x", "a">>,
     MaPhuong   |-> <<"M", "a", "P", "h", "u", "o", "n", "g">>,
     ten_xa     |-> <<"t", "e", "n", "_", "x", "a">>,
     TenPhuong  |-> <<"T", "e", "n", "P", "h", "u", "o", "n", "g">>,
     ten_phuong |-> <<"t", "e", "n", "_", "p", "h", "u", "o", "n", "g">>,
     ma_tinh    |-> <<"m", "a", "_", "t", "i", "n", "h">>,
     ten_tinh   |-> <<"t", "e", "n", "_", "t", "i", "n", "h">>,
     Quan       |-> <<"Q", "u", "a", "n">>,
     loai       |-> <<"l", "o", "a", "i">>]

\* a column key of None: r.get(None)
NoCol == <<>>

name_An == <<"A", "n">>
name_Ba == <<"B", "a">>

f_dated   == <<"1", "5", "-", "0", "3", "-", "2", "0", "2", "3", ".", "c", "s", "v">>
f_garbage == <<"g", "a", "r", "b", "a", "g", "e", ".", "C", "S", "V">>
f_notes   == <<"n", "o", "t", "e", "s", ".", "t", "x", "t">>

FileNames == {f_dated, f_garbage, f_notes}

\* What pd.read_csv makes of a file: readable is "utf8" (read at the first attempt),
\* "latin1" (read at the second) or "none" (both attempts raise); rows[i][j] is the
\* cell of row i under columns[j].
c_good ==
    [readable |-> "utf8",
     columns  |-> <<Header.ma_xa, Header.ten_xa, Header.lon, Header.lat, Header.NDVI, Header.LST>>,
     rows     |-> << <<Num(100), Str(name_Ba), Num(10670), Num(1070),
                       Str(<<"0", ",", "4", "5">>), Num(3010)>>,
                     <<Num(200), Str(name_An), Num(10750), Num(1150),
                       Str(<<"0", ".", "5", "0">>), Num(2950)>>,
                     <<Num(300), Str(name_An), Num(10600), Num(1000),
                       Str(<<"0", ".", "5", "0">>), NaN>> >>]

c_reversed ==
    [readable |-> "latin1",
     columns  |-> <<Header.TenPhuong, Header.toa_do_x, Header.toa_do_y, Header.ndvi_hcm, Header.TVDI>>,
     rows     |-> << <<Str(name_An), Str(<<"1", "1", ".", "1">>),
                       Str(<<"1", "0", "7", ".", "2">>), Num(45), Num(30)>>,
                     <<Str(name_Ba), Str(<<"1", "0", "6", ",", "7">>),
                       Str(<<"1", "0", ".", "7">>), Num(50), NaN>>,
                     <<NaN, NaN, Str(<<"1", "0", ".", "7">>), NaN, Num(0)>> >>]

c_unreadable ==
    [readable |-> "none", columns |-> <<>>, rows |-> <<>>]

c_upper ==
    [readable |-> "utf8",
     columns  |-> <<Header.ten_xa, Header.Lon, Header.Lat, Header.NDVI>>,
     rows     |-> << <<Str(name_Ba), Num(10670), Num(1070), Num(45)>> >>]

\* pd.read_csv(path, ...) of a file with that content
ReadCsv(content) ==
    CASE content = "good"       -> c_good
      [] content = "reversed"   -> c_reversed
      [] content = "unreadable" -> c_unreadable
      [] content = "upper"      -> c_upper

\* os.path.getmtime, in seconds: ticks of half a day from the start of 2023-03-20
BaseTime == 1679270400
HalfDay == 43200
MTimes == {BaseTime + k * HalfDay : k \in 0..MaxTick}

Absent == [present |-> FALSE, mtime |-> 0, content |-> "unreadable"]
File(t, c) == [present |-> TRUE, mtime |-> t, content |-> c]

\* notes.txt holds what a .csv file could hold and is newer than every .csv file
NotesFile == File(BaseTime + (MaxTick + 1) * HalfDay, "good")

\* f.lower().endswith('.csv')
IsCsv(fname) == EndsWith(Lower(fname), ExtCsv)

CsvNames == {f \in FileNames : IsCsv(f)}

\* the contents each file of the model takes
ContentsOf(f) ==
    IF f = f_dated THEN {"good", "reversed", "upper"}
    ELSE {"unreadable", "reversed", "upper"}

FileStates(f) ==
    IF f \in CsvNames THEN {Absent} \cup {File(t, c) : t \in MTimes, c \in ContentsOf(f)}
    ELSE {NotesFile}

----------------------------------------------------------------------------
(* DataLoader: row and corpus assembly *)

IndexNames == <<Header.LST, Header.NDVI, Header.TVDI>>

SeqToSet(q) == {q[i] : i \in 1..Len(q)}

\* _find_index_cols(df)[idx]: the first column equal to idx in upper case, else the
\* first that contains it, else None
FindIndexCol(columns, idx) ==
    LET matches == {j \in 1..Len(columns) : Contains(Upper(columns[j]), idx)}
        exact   == {j \in matches : Upper(columns[j]) = idx}
    IN  IF matches = {} THEN NoCol
        ELSE IF exact # {} THEN columns[Min(exact)]
        ELSE columns[Min(matches)]

\* for cand in [...]: if cand in df.columns: col = cand; break
FirstCandidate(columns, cands) ==
    LET hits == {j \in 1..Len(cands) : cands[j] \in SeqToSet(columns)}
    IN  IF hits = {} THEN NoCol ELSE cands[Min(hits)]

LonCandidates == <<Header.toa_do_x, Header.lon, Header.longitude, Header.x>>
LatCandidates == <<Header.toa_do_y, Header.lat, Header.latitude, Header.y>>

\* r.get(col) for the row r of a frame with these columns
Get(columns, r, col) ==
    LET hits == {j \in 1..Len(columns) : columns[j] = col}
    IN  IF hits = {} THEN None ELSE r[CHOOSE j \in hits : TRUE]

\* bool(x) of a cell: None, 0 and "" are false, nan is true
Truthy(cell) ==
    CASE cell.k = "none" -> FALSE
      [] cell.k = "nan"  -> TRUE
      [] cell.k = "num"  -> cell.v # 0
      [] cell.k = "str"  -> cell.s # <<>>

\* a or b
Or(a, b) == IF Truthy(a) THEN a ELSE b

\* the dict of one accepted row, lines 102-113
Row(columns, r, xy, date) ==
    [MaPhuong  |-> Or(Get(columns, r, Header.ma_xa), Or(Get(columns, r, Header.MaPhuong), None)),
     TenPhuong |-> Or(Get(columns, r, Header.ten_xa),
                      Or(Get(columns, r, Header.TenPhuong),
                         Or(Get(columns, r, Header.ten_phuong), None))),
     Lon       |-> xy.lon,
     Lat       |-> xy.lat,
     Date      |-> date,
     NDVI      |-> Get(columns, r, FindIndexCol(columns, Header.NDVI)),
     LST       |-> Get(columns, r, FindIndexCol(columns, Header.LST)),
     TVDI      |-> Get(columns, r, FindIndexCol(columns, Header.TVDI)),
     Quan      |-> Or(Get(columns, r, Header.ma_tinh),
                      Or(Get(columns, r, Header.ten_tinh), Or(Get(columns, r, Header.Quan), None))),
     Landuse   |-> Or(Get(columns, r, Header.loai), None)]

RowColumns == {"MaPhuong", "TenPhuong", "Lon", "Lat", "Date", "NDVI", "LST", "TVDI",
               "Quan", "Landuse"}

\* the coordinates of row r, lines 75-100
RowCoords(columns, r) ==
    ValidateCoords(Get(columns, r, FirstCandidate(columns, LonCandidates)),
                   Get(columns, r, FirstCandidate(columns, LatCandidates)))

RECURSIVE FileRowsFrom(_, _, _)
\* rows i.. of a frame, the rejected ones skipped
FileRowsFrom(c, date, i) ==
    IF i > Len(c.rows) THEN <<>>
    ELSE LET xy == RowCoords(c.columns, c.rows[i])
         IN  (IF xy.ok THEN <<Row(c.columns, c.rows[i], xy, date)>> ELSE <<>>)
               \o FileRowsFrom(c, date, i + 1)

\* the rows one file contributes, lines 69-114
FileRows(fname, file) ==
    FileRowsFrom(ReadCsv(file.content), FileDate(fname, file.mtime), 1)

\* the .csv files os.listdir shows
Listed(dir) == {f \in DOMAIN dir : dir[f].present} \cap CsvNames

RECURSIVE SortedNames(_)
\* sorted(names)
SortedNames(S) ==
    IF S = {} THEN <<>>
    ELSE LET m == CHOOSE x \in S : \A y \in S \ {x} : StrLess(x, y)
         IN  <<m>> \o SortedNames(S \ {m})

RECURSIVE ConcatFrames(_, _)
\* pd.concat of the frames of the files in q
ConcatFrames(dir, q) ==
    IF q = <<>> THEN <<>>
    ELSE FileRows(q[1], dir[q[1]]) \o ConcatFrames(dir, Tail(q))

\* a missing value of the sort key: None or nan (na_position='last')
IsNA(cell) == cell.k \in {"none", "nan"}

\* the name of a sorts strictly before the name of b; the name cells of the model are
\* text or missing
NameLess(a, b) ==
    IF IsNA(a) THEN FALSE
    ELSE IF IsNA(b) THEN TRUE
    ELSE StrLess(a.s, b.s)

DateLess(d, e) == d.day < e.day \/ (d.day = e.day /\ d.sec < e.sec)

\* row a sorts strictly before row b under ['TenPhuong', 'Date']
RowLess(a, b) ==
    \/ NameLess(a.TenPhuong, b.TenPhuong)
    \/ /\ ~NameLess(b.TenPhuong, a.TenPhuong)
       /\ DateLess(a.Date, b.Date)

\* the rows of p in the stable order given by before, the pairs <<i, j>> of
\* positions with row i sorting strictly before row j: position k gets the row that
\* k - 1 rows precede, those that sort before it and its equals met earlier
Arrange(p, before) ==
    CHOOSE out \in
        {[k \in 1..Len(p) |->
            p[CHOOSE i \in 1..Len(p) :
                Cardinality({j \in 1..Len(p) :
                    <<j, i>> \in b \/ (<<i, j>> \notin b /\ j < i)}) = k - 1]]
         : b \in {before}} : TRUE

\* SortRows with the sort key ['TenPhuong'] alone
SortRowsByName(q) ==
    CHOOSE out \in
        {Arrange(p, {ij \in (1..Len(p)) \X (1..Len(p)) :
                        NameLess(p[ij[1]].TenPhuong, p[ij[2]].TenPhuong)})
         : p \in {q}} : TRUE

\* sort_values(['TenPhuong', 'Date']).reset_index(drop=True)
SortRows(q) ==
    CHOOSE out \in
        {Arrange(p, {ij \in (1..Len(p)) \X (1..Len(p)) : RowLess(p[ij[1]], p[ij[2]])})
         : p \in {q}} : TRUE

\* df_long is None
NoFrame == [isNone |-> TRUE, columns |-> {}, rows |-> <<>>]
\* pd.DataFrame()
EmptyFrame == [isNone |-> FALSE, columns |-> {}, rows |-> <<>>]
Frame(rows) == [isNone |-> FALSE, columns |-> RowColumns, rows |-> rows]

\* the corpus a rebuild makes of the directory, lines 58-125
BuildCorpus(dir) ==
    CHOOSE df \in
        {IF rows = <<>> THEN EmptyFrame ELSE Frame(SortRows(rows))
         : rows \in {ConcatFrames(dir, SortedNames(Listed(dir)))}} : TRUE

\* every content the directory can have
Directories ==
    {d \in [FileNames -> UNION {FileStates(f) : f \in FileNames}] :
        \A f \in FileNames : d[f] \in FileStates(f)}

\* BuildCorpus, tabulated
CorpusTable == [d \in Directories |-> BuildCorpus(d)]

\* some listed file raises under utf-8-sig and under latin1, lines 64-67
ReadFails(dir) == \E f \in Listed(dir) : ReadCsv(dir[f].content).readable = "none"

\* _get_latest_mtime, with listable telling whether os.listdir succeeds
LatestMtime(listable, dir) ==
    IF ~listable THEN 0
    ELSE IF Listed(dir) = {} THEN 0
    ELSE Max({dir[f].mtime : f \in Listed(dir)})

----------------------------------------------------------------------------
(* DataLoader: the operations *)

NoCall == [op |-> "none", force |-> FALSE, load |-> "none", error |-> "none",
           value |-> <<>>]

\* a new object: one that is not the object df_long refers to now (two names are
\* enough to tell whether a call returned the object the call before it returned)
NewObject(id) == IF id = 1 THEN 2 ELSE 1

\* NeedsRebuild with > for !=
NeedsRebuildNewerOnly(force, latest_mtime) ==
    force \/ df_long.isNone \/ latest_mtime > last_loaded_time

\* NeedsRebuild with >= for !=
NeedsRebuildNotOlder(force, latest_mtime) ==
    force \/ df_long.isNone \/ latest_mtime >= last_loaded_time

\* force or self.df_long is None or latest_mtime != self.last_loaded_time
NeedsRebuild(force, latest_mtime) ==
    force \/ df_long.isNone \/ latest_mtime # last_loaded_time

\* LoadAllResult with the token recorded and the old corpus dropped when the
\* rebuild starts, before the directory is read
LoadAllResultEarlyToken(force) ==
    LET latest_mtime == LatestMtime(dir_exists, files)
    IN  IF NeedsRebuild(force, latest_mtime)
        THEN IF ~dir_exists
             THEN [load |-> "raised", error |-> "FileNotFoundError",
                   df |-> NoFrame, id |-> 0, time |-> latest_mtime]
             ELSE IF ReadFails(files)
             THEN [load |-> "raised", error |-> "ReadError",
                   df |-> NoFrame, id |-> 0, time |-> latest_mtime]
             ELSE [load |-> "rebuilt", error |-> "none",
                   df |-> CorpusTable[files], id |-> NewObject(df_id), time |-> latest_mtime]
        ELSE [load |-> "cached", error |-> "none",
              df |-> df_long, id |-> df_id, time |-> last_loaded_time]

\* LoadAllResult with the rebuild adding the rows of the directory to the rows of
\* the corpus it has
LoadAllResultMerging(force) ==
    LET latest_mtime == LatestMtime(dir_exists, files)
    IN  IF NeedsRebuild(force, latest_mtime)
        THEN IF ~dir_exists
             THEN [load |-> "raised", error |-> "FileNotFoundError",
                   df |-> df_long, id |-> df_id, time |-> last_loaded_time]
             ELSE IF ReadFails(files)
             THEN [load |-> "raised", error |-> "ReadError",
                   df |-> df_long, id |-> df_id, time |-> last_loaded_time]
             ELSE [load |-> "rebuilt", error |-> "none",
                   df |-> IF df_long.rows = <<>> THEN CorpusTable[files]
                          ELSE Frame(SortRows(df_long.rows \o CorpusTable[files].rows)),
                   id |-> NewObject(df_id), time |-> latest_mtime]
        ELSE [load |-> "cached", error |-> "none",
              df |-> df_long, id |-> df_id, time |-> last_loaded_time]

\* load_all(force) in the current state: what it does (load is "cached" when it
\* returns self.df_long as it is, "rebuilt" when it assigns a new corpus, "raised"
\* when the rebuild raises) and the cache it leaves
LoadAllResult(force) ==
    LET latest_mtime == LatestMtime(dir_exists, files)
    IN  IF NeedsRebuild(force, latest_mtime)
        THEN IF ~dir_exists
             THEN [load |-> "raised", error |-> "FileNotFoundError",
                   df |-> df_long, id |-> df_id, time |-> last_loaded_time]
             ELSE IF ReadFails(files)
             THEN [load |-> "raised", error |-> "ReadError",
                   df |-> df_long, id |-> df_id, time |-> last_loaded_time]
             ELSE [load |-> "rebuilt", error |-> "none",
                   df |-> CorpusTable[files], id |-> NewObject(df_id), time |-> latest_mtime]
        ELSE [load |-> "cached", error |-> "none",
              df |-> df_long, id |-> df_id, time |-> last_loaded_time]

\* the part of a call that is load_all: the cache after it
Loaded(res) ==
    /\ df_long' = res.df
    /\ df_id' = res.id
    /\ last_loaded_time' = res.time
    /\ hist' = IF res.load = "raised" THEN hist ELSE "clean"
    /\ UNCHANGED <<dir_exists, files, arg, ret>>

load_all(force) ==
    \E res \in {LoadAllResult(force)} :
        /\ Loaded(res)
        /\ outcome' = [op |-> "load_all", force |-> force, load |-> res.load,
                       error |-> res.error,
                       value |-> IF res.load = "raised" THEN <<>> ELSE <<res.id>>]

\* a derived read: load_all() first, then the view of self.df_long; df[col] raises
\* KeyError on the frame pd.DataFrame() that has no columns
Read(op, res, needs, view) ==
    /\ Loaded(res)
    /\ outcome' = [op |-> op, force |-> FALSE, load |-> res.load,
                   error |-> IF res.load = "raised" THEN res.error
                             ELSE IF ~(needs \subseteq res.df.columns) THEN "KeyError"
                             ELSE "none",
                   value |-> IF res.load # "raised" /\ needs \subseteq res.df.columns
                             THEN view ELSE <<>>]

\* the columns get_values_for_date selects
ValueColumns(index_name) ==
    {"MaPhuong", "TenPhuong", "Lon", "Lat", index_name, "Quan", "Landuse"}

RECURSIVE SortedDates(_)
\* sorted(self.df_long['Date'].dropna().unique())
SortedDates(S) ==
    IF S = {} THEN <<>>
    ELSE LET m == CHOOSE x \in S : \A y \in S \ {x} : DateLess(x, y)
         IN  <<m>> \o SortedDates(S \ {m})

\* df[mask]: the rows of p at the positions in kept, in order
Take(p, kept) ==
    [k \in 1..Cardinality(kept) |->
        p[CHOOSE i \in kept : Cardinality({j \in kept : j < i}) = k - 1]]

\* df[columns]
ProjectRows(p, cols) == [i \in 1..Len(p) |-> [c \in cols |-> p[i][c]]]

\* sort_values('Date')
SortByDate(q) ==
    CHOOSE out \in
        {Arrange(p, {ij \in (1..Len(p)) \X (1..Len(p)) :
                        DateLess(p[ij[1]].Date, p[ij[2]].Date)})
         : p \in {q}} : TRUE

\* self.df_long[self.df_long['Date'] == date][[...]].copy()
ValuesForDate(rows, date, index_name) ==
    CHOOSE out \in
        {ProjectRows(p, ValueColumns(index_name))
         : p \in {Take(rows, {i \in 1..Len(rows) : rows[i].Date = date})}} : TRUE

\* self.df_long[self.df_long['TenPhuong'] == ten_phuong].sort_values('Date')
SeriesForPhuong(rows, ten_phuong) ==
    SortByDate(Take(rows, {i \in 1..Len(rows) : rows[i].TenPhuong = Str(ten_phuong)}))

get_timepoints ==
    \E res \in {LoadAllResult(FALSE)} :
        Read("get_timepoints", res, {"Date"},
             SortedDates({res.df.rows[i].Date : i \in 1..Len(res.df.rows)}))

get_values_for_date(date, index_name) ==
    \E res \in {LoadAllResult(FALSE)} :
        Read("get_values_for_date", res, {"Date"} \cup ValueColumns(index_name),
             ValuesForDate(res.df.rows, date, index_name))

get_series_for_phuong(ten_phuong) ==
    \E res \in {LoadAllResult(FALSE)} :
        Read("get_series_for_phuong", res, {"TenPhuong", "Date"},
             SeriesForPhuong(res.df.rows, ten_phuong))

----------------------------------------------------------------------------
(* The directory changes under the loader *)

DirStep(newFiles, newHist) ==
    /\ dir_exists
    /\ files' = newFiles
    /\ hist' = newHist
    /\ outcome' = NoCall
    /\ UNCHANGED <<dir_exists, df_long, df_id, last_loaded_time, arg, ret>>

\* a file is written or replaced
WriteFile(f, st) ==
    /\ st.present
    /\ st # files[f]
    /\ DirStep([files EXCEPT ![f] = st], "changed")

RemoveFile(f) ==
    /\ files[f].present
    /\ DirStep([files EXCEPT ![f] = Absent], "changed")

\* os.utime: only the modification time of a .csv file changes
Touch(f, t) ==
    /\ files[f].present
    /\ t # files[f].mtime
    /\ DirStep([files EXCEPT ![f].mtime = t],
               IF hist = "clean" THEN "touched" ELSE "changed")

\* the directory goes away or comes back (or stops and starts being listable)
ToggleDir ==
    /\ dir_exists' = ~dir_exists
    /\ hist' = "changed"
    /\ outcome' = NoCall
    /\ UNCHANGED <<files, df_long, df_id, last_loaded_time, arg, ret>>

----------------------------------------------------------------------------
(* The loader over a changing directory *)

QueryDates == {TimestampOfDate(EpochDay(2023, 3, 15))}
IndexColumns == {"NDVI", "LST", "TVDI"}
QueryNames == {name_An, name_Ba}

\* the loader as __init__ leaves it, next to a directory without .csv files
Idle ==
    /\ dir_exists = TRUE
    /\ files = [f \in FileNames |-> IF f \in CsvNames THEN Absent ELSE NotesFile]
    /\ df_long = NoFrame
    /\ df_id = 0
    /\ last_loaded_time = 0
    /\ outcome = NoCall
    /\ hist = "changed"

Init ==
    /\ Idle
    /\ arg = <<>>
    /\ ret = <<>>

Next ==
    \/ \E force \in BOOLEAN : load_all(force)
    \/ get_timepoints
    \/ \E date \in QueryDates, index_name \in IndexColumns :
          get_values_for_date(date, index_name)
    \/ \E ten_phuong \in QueryNames : get_series_for_phuong(ten_phuong)
    \/ \E f \in CsvNames : \E st \in FileStates(f) : WriteFile(f, st)
    \/ \E f \in CsvNames : RemoveFile(f)
    \/ \E f \in CsvNames, t \in MTimes : Touch(f, t)
    \/ ToggleDir

Spec == Init /\ [][Next]_vars

----------------------------------------------------------------------------
(* Coordinate validation on its own: a pair of cells in, the stored pair or *)
(* the rejection out                                                        *)

CoordValues == {0, 799, 800, 999, 1000, 1070, 1110, 1111, 1200, 1201, 5000,
                10499, 10500, 10599, 10600, 10670, 10720, 10721, 10800, 10801}

CoordCells ==
    {Num(v) : v \in CoordValues}
      \cup {None, NaN, Num(0 - 1070),
            Str(<<"1", "0", "6", ".", "7">>), Str(<<"1", "0", ".", "7">>),
            Str(<<"1", "0", "6", ",", "7">>), Str(<<" ", "1", "1", ".", "1">>)}

InitCoords ==
    /\ Idle
    /\ arg \in CoordCells \X CoordCells
    /\ ret = <<>>

validate_coords ==
    /\ ret = <<>>
    /\ ret' = <<ValidateCoords(arg[1], arg[2])>>
    /\ UNCHANGED <<dir_exists, files, df_long, df_id, last_loaded_time, outcome, hist, arg>>

NextCoords == validate_coords

SpecCoords == InitCoords /\ [][NextCoords]_vars

----------------------------------------------------------------------------
(* Date resolution on its own: a file name and a modification time in, the *)
(* Date of the file's rows out                                              *)

DayTexts   == {<<"1", "5">>, <<"3", "1">>, <<"2", "9">>, <<"5">>, <<"3", "2">>, <<"0", "0">>}
MonthTexts == {<<"0", "3">>, <<"0", "2">>, <<"2">>, <<"1", "3">>}
YearTexts  == {<<"2", "0", "2", "3">>, <<"2", "0", "2", "4">>, <<"2", "3">>,
               <<"0", "0", "0", "0">>}
Separators == {"-", "_"}
Prefixes   == {<<>>, <<"1">>, <<"n", "d", "v", "i", "_">>}
Extensions == {ExtCsv, <<".", "C", "S", "V">>}

f_two_dates == <<"3", "1", "-", "0", "2", "-", "2", "0", "2", "3", "_",
                 "0", "1", "-", "0", "3", "-", "2", "0", "2", "3", ".", "c", "s", "v">>
f_year_first == <<"2", "0", "2", "3", "-", "0", "3", "-", "1", "5", ".", "c", "s", "v">>
f_feb31 == <<"3", "1", "-", "0", "2", "-", "2", "0", "2", "3", ".", "c", "s", "v">>

DateNames ==
    {pre \o d \o <<sep>> \o m \o <<sep>> \o y \o ext :
        pre \in Prefixes, d \in DayTexts, sep \in Separators, m \in MonthTexts,
        y \in YearTexts, ext \in Extensions}
      \cup {f_dated, f_garbage, f_two_dates, f_year_first, f_feb31}

InitDate ==
    /\ Idle
    /\ arg \in DateNames \X MTimes
    /\ ret = <<>>

resolve_date ==
    /\ ret = <<>>
    /\ ret' = <<FileDate(arg[1], arg[2])>>
    /\ UNCHANGED <<dir_exists, files, df_long, df_id, last_loaded_time, outcome, hist, arg>>

NextDate == resolve_date

SpecDate == InitDate /\ [][NextDate]_vars

----------------------------------------------------------------------------
(* The sort of the concatenated frames on its own: rows in, rows out *)

MaxRows == 3

\* rows as pd.concat hands them to sort_values, reduced to the sort keys
SortInputRows ==
    {[TenPhuong |-> n, Date |-> TimestampOfDate(EpochDay(2023, 3, d))] :
        n \in {Str(name_An), Str(name_Ba), None, NaN}, d \in {15, 20}}

InitSort ==
    /\ Idle
    /\ arg \in UNION {[1..n -> SortInputRows] : n \in 2..MaxRows}
    /\ ret = <<>>

sort_corpus ==
    /\ ret = <<>>
    /\ ret' = <<SortRows(arg)>>
    /\ UNCHANGED <<dir_exists, files, df_long, df_id, last_loaded_time, outcome, hist, arg>>

NextSort == sort_corpus

SpecSort == InitSort /\ [][NextSort]_vars

----------------------------------------------------------------------------
(* chart_view._clean_numeric on one cell: text in, float out.  A float is   *)
(* [nan, neg, m, e]: m / 10^e with its sign, e as small as it can be        *)

NotANumber == [nan |-> TRUE, neg |-> FALSE, m |-> 0, e |-> 0]

RECURSIVE Decimal(_, _, _)
\* the float with these digits: 1.50 is 1.5, -0 is 0
Decimal(neg, m, e) ==
    IF e > 0 /\ m % 10 = 0 THEN Decimal(neg, m \div 10, e - 1)
    ELSE [nan |-> FALSE, neg |-> neg /\ m # 0, m |-> m, e |-> e]

\* .str.replace(r"[^\d\.\-]", "", regex=True)
KeepNumeric(s) == Take(s, {i \in 1..Len(s) : IsDigit(s[i]) \/ s[i] \in {".", "-"}})

\* .str.replace(r"\.(?=\d{3}(\D|$))", "", regex=True): a dot goes when exactly three
\* digits follow it
DropGrouping(s) ==
    Take(s, {i \in 1..Len(s) :
                ~(/\ s[i] = "."
                  /\ AllDigits(s, i + 1, 3)
                  /\ (i + 4 > Len(s) \/ ~IsDigit(s[i + 4])))})

\* .str.replace(",", ".", regex=True)
CommaToDot(s) == [i \in 1..Len(s) |-> IF s[i] = "," THEN "." ELSE s[i]]

\* pd.to_numeric(text, errors="coerce") of text made of digits, dots and minus signs
ToNumeric(s) ==
    LET neg  == s # <<>> /\ s[1] = "-"
        t    == IF neg THEN Tail(s) ELSE s
        dots == {i \in 1..Len(t) : t[i] = "."}
        dot  == Min(dots \cup {Len(t) + 1})
    IN  IF /\ \A i \in 1..Len(t) : IsDigit(t[i]) \/ t[i] = "."
           /\ Cardinality(dots) <= 1
           /\ Len(t) > Cardinality(dots)
        THEN Decimal(neg, IntOf(Take(t, (1..Len(t)) \ dots)), Max({Len(t) - dot, 0}))
        ELSE NotANumber

_clean_numeric(s) == ToNumeric(CommaToDot(DropGrouping(KeepNumeric(s))))

RECURSIVE PadDigits(_, _)
\* the last w digits of n
PadDigits(n, w) ==
    IF w = 0 THEN <<>>
    ELSE PadDigits(n \div 10, w - 1) \o <<CHOOSE c \in Digits : DigitVal(c) = n % 10>>

\* astype(str) of a float: "485.0", "-1.5", "nan"
FormatFloat(d) ==
    IF d.nan THEN <<"n", "a", "n">>
    ELSE (IF d.neg THEN <<"-">> ELSE <<>>)
           \o PadDigits(d.m \div 10^d.e,
                        CHOOSE w \in 1..18 : d.m \div 10^d.e < 10^w
                                              /\ (w = 1 \/ d.m \div 10^d.e >= 10^(w - 1)))
           \o <<".">>
           \o (IF d.e = 0 THEN <<"0">> ELSE PadDigits(d.m % 10^d.e, d.e))

\* cells of the index columns: a sign, digits, a separator, decimals; and a few more
NumericTexts ==
    {sign \o int \o sep \o frac :
        sign \in {<<>>, <<"-">>},
        int  \in {<<"0">>, <<"7">>, <<"1", "2", "3">>, <<"1", ".", "2", "3", "4">>},
        sep  \in {<<".">>, <<",">>},
        frac \in {<<"5">>, <<"4", "5">>, <<"4", "8", "5">>, <<"4", "8", "5", "0">>,
                  <<"4", "8", "5", "1">>}}
      \cup {<<"1", ".", "2", "3", "4", ",", "5", "6">>,
            <<"1", "2", "3">>, <<"1", ".", "2", "3", "4">>, <<"1", ".", "2", "3", "4", ".", "5", "6", "7">>,
            <<" ", "3", "0", ".", "1", " ">>, <<"n", "a", "n">>, <<>>, <<"-">>,
            <<"1", "-", "2">>, <<"1", ".", "2", ".", "3">>, <<"3", "0", ".", "1", "C">>}

InitNumeric ==
    /\ Idle
    /\ arg \in NumericTexts
    /\ ret = <<>>

\* the cell coerced, and the text of the result coerced again
clean_numeric ==
    /\ ret = <<>>
    /\ ret' = <<_clean_numeric(arg), _clean_numeric(FormatFloat(_clean_numeric(arg)))>>
    /\ UNCHANGED <<dir_exists, files, df_long, df_id, last_loaded_time, outcome, hist, arg>>

SpecNumeric == InitNumeric /\ [][clean_numeric]_vars

----------------------------------------------------------------------------
(* map_chart_tool: find_column and the column detection of load_and_prepare *)

\* the candidate lists of load_and_prepare, lines 105-113
Aliases ==
    [name |-> <<<<"t", "e", "n", "X", "a">>, <<"t", "e", "n", "_", "x", "a">>,
               <<"t", "e", "n">>, <<"x", "a">>, <<"p", "h", "u", "o", "n", "g">>,
               <<"t", "e", "n", "x", "a">>, <<"c", "o", "m", "m", "u", "n", "e">>,
               <<"n", "a", "m", "e">>>>,
     lon  |-> <<<<"P", "O", "I", "N", "T", "_", "X">>,
               <<"P", "O", "I", "N", "T", "_", "X", " ">>,
               <<"P", "O", "I", "N", "T", "X">>, <<"l", "o", "n", "g">>,
               <<"l", "o", "n">>, <<"x">>,
               <<"l", "o", "n", "g", "i", "t", "u", "d", "e">>>>,
     lat  |-> <<<<"P", "O", "I", "N", "T", "_", "Y">>,
               <<"P", "O", "I", "N", "T", "_", "Y", " ">>,
               <<"P", "O", "I", "N", "T", "Y">>, <<"l", "a", "t">>, <<"y">>,
               <<"l", "a", "t", "i", "t", "u", "d", "e">>>>,
     ndvi |-> <<<<"N", "D", "V", "I">>, <<"n", "d", "v", "i", "_", "h", "c", "m">>,
               <<"n", "d", "v", "i", "_", "h", "c", "m", "_", "b">>,
               <<"n", "d", "v", "i">>>>,
     lst  |-> <<<<"L", "S", "T">>, <<"L", "S", "T", "_", "H", "C", "M">>,
               <<"L", "S", "T", "_", "H", "C", "M", "_", "B", "D">>, <<"l", "s", "t">>>>,
     tdvi |-> <<<<"T", "D", "V", "I">>,
               <<"t", "d", "v", "i", "_", "h", "c", "m", "_", "b">>,
               <<"t", "d", "v", "i">>>>]

\* find_column with one loop: each candidate is tried as a whole name and then as a
\* part of a name before the next candidate is looked at
find_column_by_candidate(columns, candidates) ==
    LET hits == {j \in 1..Len(candidates) :
                    \E i \in 1..Len(columns) :
                        Contains(Lower(columns[i]), Lower(candidates[j]))}
        cand == Lower(candidates[Min(hits)])
        whole == {i \in 1..Len(columns) : Lower(columns[i]) = cand}
    IN  IF hits = {} THEN NoCol
        ELSE IF whole # {} THEN columns[Max(whole)]
        ELSE columns[Min({i \in 1..Len(columns) : Contains(Lower(columns[i]), cand)})]

\* find_column(df, candidates), lines 61-73; None is NoCol.  cols_lower maps a name
\* in lower case to the last column that has it
find_column(columns, candidates) ==
    LET cols_lower == [key \in {Lower(columns[i]) : i \in 1..Len(columns)} |->
                          columns[Max({i \in 1..Len(columns) : Lower(columns[i]) = key})]]
        keyed == {j \in 1..Len(candidates) : Lower(candidates[j]) \in DOMAIN cols_lower}
        found == {ji \in (1..Len(candidates)) \X (1..Len(columns)) :
                     Contains(Lower(columns[ji[2]]), Lower(candidates[ji[1]]))}
    IN  IF keyed # {} THEN cols_lower[Lower(candidates[Min(keyed)])]
        ELSE IF found # {}
        THEN columns[(CHOOSE ji \in found :
                         \A kl \in found :
                             ji[1] < kl[1] \/ (ji[1] = kl[1] /\ ji[2] <= kl[2]))[2]]
        ELSE NoCol

\* load_and_prepare, lines 102-128, for a file with these headers: the detected
\* columns and the error of the basic checks
load_and_prepare(headers) ==
    LET columns  == [i \in 1..Len(headers) |-> RStrip(LStrip(headers[i]))]
        detected == [key \in DOMAIN Aliases |-> find_column(columns, Aliases[key])]
    IN  [detected |-> detected,
         error    |-> IF NoCol \in {detected.name, detected.lon, detected.lat}
                      THEN "ValueError" ELSE "none"]

MaxCols == 3

\* headers of the files the tools are given
HeaderPool ==
    {<<"t", "e", "n", "_", "x", "a">>, <<"T", "e", "n", "P", "h", "u", "o", "n", "g">>,
     <<"x", "a">>, <<"t", "o", "a", "_", "d", "o", "_", "x">>,
     <<"t", "o", "a", "_", "d", "o", "_", "y">>, <<"l", "o", "n">>, <<"L", "A", "T">>,
     <<"N", "D", "V", "I">>, <<"n", "d", "v", "i">>,
     <<"n", "d", "v", "i", "_", "h", "c", "m">>, <<"L", "S", "T", " ">>}

InitColumns ==
    /\ Idle
    /\ arg \in UNION {{h \in [1..n -> HeaderPool] : \A i, j \in 1..n : h[i] = h[j] => i = j}
                       : n \in 1..MaxCols}
    /\ ret = <<>>

\* the columns both tools resolve for a file with the headers arg: load_and_prepare's
\* detected dict and DataLoader's col_map
detect_columns ==
    /\ ret = <<>>
    /\ ret' = <<load_and_prepare(arg),
                [idx \in SeqToSet(IndexNames) |-> FindIndexCol(arg, idx)]>>
    /\ UNCHANGED <<dir_exists, files, df_long, df_id, last_loaded_time, outcome, hist, arg>>

SpecColumns == InitColumns /\ [][detect_columns]_vars

----------------------------------------------------------------------------
(* Row assembly on its own: a frame with two alias columns of the region code *)
(* in, the rows of the file out                                              *)

\* rows of a file with the headers ma_xa, MaPhuong, lon, lat, all inside the box
CodeRows ==
    {<<a, b, Num(10670), Num(1070)>> :
        a \in {Num(0), Num(100), NaN}, b \in {Num(0), Num(700), NaN}}

InitRows ==
    /\ Idle
    /\ arg \in UNION {[1..n -> CodeRows] : n \in 1..MaxRows}
    /\ ret = <<>>

assemble_rows ==
    /\ ret = <<>>
    /\ ret' = <<FileRowsFrom([readable |-> "utf8",
                              columns  |-> <<Header.ma_xa, Header.MaPhuong,
                                             Header.lon, Header.lat>>,
                              rows     |-> arg],
                             TimestampOfDate(EpochDay(2023, 3, 15)), 1)>>
    /\ UNCHANGED <<dir_exists, files, df_long, df_id, last_loaded_time, outcome, hist, arg>>

SpecRows == InitRows /\ [][assemble_rows]_vars

----------------------------------------------------------------------------
(* Properties *)

\* the target box of the reference region, in hundredths of a degree
InTargetBox(lon, lat) ==
    /\ ~lon.nan /\ ~lat.nan
    /\ 1000 <= lat.v /\ lat.v <= 1110
    /\ 10600 <= lon.v /\ lon.v <= 10720

\* C1: whatever load_all calls were made over whatever directory, every row of
\* df_long has coordinates that are numbers (not nan) with 10 <= Lat <= 11.1 and
\* 106 <= Lon <= 107.2.
C1_CoordsInBox ==
    \A i \in 1..Len(df_long.rows) :
        InTargetBox(df_long.rows[i].Lon, df_long.rows[i].Lat)

\* a rebuild that kept two of the three rows of 15-03-2023.csv and dropped the
\* one outside the box
C1_Witness ==
    /\ outcome.load = "rebuilt"
    /\ files[f_dated].present /\ files[f_dated].content = "good"
    /\ ~files[f_garbage].present
    /\ Len(df_long.rows) = 2

\* C2: once load_all has returned and while the directory stays as it is, a
\* load_all(force=False) or a derived read returns the cached corpus: the same
\* object, unchanged, with no rebuild.
C2_CachedWhileUnchanged ==
    [][(hist = "clean" /\ outcome'.op # "none" /\ ~outcome'.force)
         => /\ outcome'.load = "cached"
            /\ df_id' = df_id
            /\ df_long' = df_long
            /\ last_loaded_time' = last_loaded_time]_vars

\* a derived read served from a cached corpus that has rows
C2_Witness ==
    /\ outcome.op = "get_timepoints"
    /\ outcome.load = "cached"
    /\ hist = "clean"
    /\ Len(df_long.rows) > 0

\* C3 as stated: after load_all has returned and one .csv file has then been
\* touched, the next load_all(force=False) does not return the cached corpus.
C3_TouchRebuilds ==
    [][(hist = "touched" /\ outcome'.op = "load_all" /\ ~outcome'.force)
         => outcome'.load # "cached"]_vars

\* C3, what holds: the same when the touch changed the maximum modification time
\* of the .csv files; the rebuild then replaces the corpus by the one built from
\* the directory.
C3_TouchOfMaxRebuilds ==
    [][(/\ hist = "touched"
        /\ outcome'.op = "load_all" /\ ~outcome'.force
        /\ LatestMtime(dir_exists, files) # last_loaded_time)
         => /\ outcome'.load # "cached"
            /\ outcome'.load = "rebuilt"
                 => /\ df_id' # df_id
                    /\ df_long' = BuildCorpus(files)
                    /\ last_loaded_time' = LatestMtime(dir_exists, files)]_vars

\* a rebuild by load_all(force=False) with a corpus cached before it
C3_Witness ==
    /\ outcome.op = "load_all" /\ ~outcome.force
    /\ outcome.load = "rebuilt"
    /\ df_id = 2
    /\ Len(df_long.rows) > 0

\* C4: every row of the corpus has each of NDVI, LST and TVDI as a float or
\* absent, never as the text of the cell.
C4_IndexCellsNumeric ==
    \A i \in 1..Len(df_long.rows) :
        /\ df_long.rows[i].NDVI.k # "str"
        /\ df_long.rows[i].LST.k # "str"
        /\ df_long.rows[i].TVDI.k # "str"

\* C5: a pair of numbers that lies in the target box as (lon, lat) is accepted
\* and stored as (Lon, Lat) = (lon, lat), whether the row carries it in the right
\* columns or in reversed ones.
C5_SwapSymmetric ==
    ret # <<>> =>
        LET a == PyFloat(arg[1])
            b == PyFloat(arg[2])
        IN  /\ (a.ok /\ b.ok /\ InTargetBox(a.f, b.f))
                 => ret[1] = [ok |-> TRUE, lon |-> a.f, lat |-> b.f]
            /\ (a.ok /\ b.ok /\ InTargetBox(b.f, a.f))
                 => ret[1] = [ok |-> TRUE, lon |-> b.f, lat |-> a.f]

\* (10.7, 106.7) in the lon and lat columns comes out as lon 106.7, lat 10.7
C5_Witness ==
    /\ arg = <<Num(1070), Num(10670)>>
    /\ ret = <<[ok |-> TRUE, lon |-> Float(10670), lat |-> Float(1070)]>>

\* C6: a pair of which neither order lies in the target box is rejected.
C6_OutOfRegionRejected ==
    ret # <<>> =>
        LET a == PyFloat(arg[1])
            b == PyFloat(arg[2])
        IN  (a.ok /\ b.ok /\ ~InTargetBox(a.f, b.f) /\ ~InTargetBox(b.f, a.f))
              => ~ret[1].ok

\* (50.0, 50.0) is rejected, swap or no swap
C6_Witness ==
    /\ arg = <<Num(5000), Num(5000)>>
    /\ ret = <<Rejected>>

\* C7: the rows of a file are dated by the first day-month-year pattern of its
\* name when that is a calendar date, and by the day of its modification time,
\* at midnight, in every other case.
C7_DateResolution ==
    ret # <<>> =>
        LET s      == StripCsv(arg[1])
            starts == {i \in 1..Len(s) : \E a, b \in {1, 2} : MatchAt(s, i, a, b)}
            g      == GroupsAt(s, Min(starts))
        IN  ret[1] = IF starts # {} /\ ValidDate(g.year, g.month, g.day)
                     THEN [day |-> EpochDay(g.year, g.month, g.day), sec |-> 0]
                     ELSE [day |-> arg[2] \div 86400, sec |-> 0]

\* 31-02-2023.csv, modified at noon of 2023-03-20, is dated 2023-03-20 00:00
C7_Witness ==
    /\ arg = <<f_feb31, BaseTime + HalfDay>>
    /\ ret = <<[day |-> 19436, sec |-> 0]>>

\* C8: a load_all over a directory with a file that neither encoding reads does
\* not raise, and a rebuild gives the rows of the other files.
C8_UnreadableFileSkipped ==
    (outcome.op = "load_all" /\ dir_exists /\ ReadFails(files))
      => /\ outcome.load # "raised"
         /\ outcome.load = "rebuilt"
              => df_long = BuildCorpus([f \in FileNames |->
                               IF ReadCsv(files[f].content).readable = "none"
                               THEN Absent ELSE files[f]])

\* C9: a load_all made while the directory cannot be listed raises.
C9_MissingDirRaises ==
    (outcome.op = "load_all" /\ ~dir_exists) => outcome.load = "raised"

\* C10: over a directory that exists and has no valid row, load_all returns an
\* empty corpus and the derived reads return without raising.
C10_EmptyCorpusReads ==
    (outcome.op # "none" /\ outcome.load # "raised" /\ df_long.rows = <<>>)
      => /\ ~df_long.isNone
         /\ outcome.error = "none"

\* C11: a get_values_for_date(date, index_name) that returns gives one row per
\* corpus row dated date, and every returned row has the three columns NDVI, LST
\* and TVDI, whichever index was asked for.
C11_ValuesExposeAllIndices ==
    [][\A date \in QueryDates, index_name \in IndexColumns :
          (/\ outcome'.op = "get_values_for_date" /\ outcome'.error = "none"
           /\ get_values_for_date(date, index_name))
            => /\ Len(outcome'.value)
                   = Cardinality({i \in 1..Len(df_long'.rows) : df_long'.rows[i].Date = date})
               /\ \A i \in 1..Len(outcome'.value) :
                     {"NDVI", "LST", "TVDI"} \subseteq DOMAIN outcome'.value[i]]_vars

\* C12: the sorted corpus holds the rows it was given, and of two consecutive rows
\* the first has the smaller region name, or the same name and a date that is not
\* later; rows without a name (None, nan) come after the named ones, by date.
C12_SortedByNameThenDate ==
    ret # <<>> =>
        /\ Len(ret[1]) = Len(arg)
        /\ \A r \in SortInputRows :
              Cardinality({i \in 1..Len(arg) : arg[i] = r})
                = Cardinality({i \in 1..Len(arg) : ret[1][i] = r})
        /\ \A i \in 1..(Len(arg) - 1) :
              LET a == ret[1][i]
                  b == ret[1][i + 1]
              IN  IF a.TenPhuong.k = "str" /\ b.TenPhuong.k = "str"
                  THEN \/ StrLess(a.TenPhuong.s, b.TenPhuong.s)
                       \/ a.TenPhuong.s = b.TenPhuong.s /\ a.Date.day <= b.Date.day
                  ELSE /\ b.TenPhuong.k # "str"
                       /\ a.TenPhuong.k # "str" => a.Date.day <= b.Date.day

\* Ba of the 20th, An of the 20th, An of the 15th come out as An 15th, An 20th, Ba
C12_Witness ==
    /\ arg = <<[TenPhuong |-> Str(name_Ba), Date |-> [day |-> 19436, sec |-> 0]],
               [TenPhuong |-> Str(name_An), Date |-> [day |-> 19436, sec |-> 0]],
               [TenPhuong |-> Str(name_An), Date |-> [day |-> 19431, sec |-> 0]]>>
    /\ ret = << <<arg[3], arg[2], arg[1]>> >>

\* C13: the coercion of a canonical decimal text (an optional minus sign, digits,
\* one dot, digits) is the number the text denotes, and the coercion of the text
\* of that result is the same number.
C13_CleanIsIdentityOnCanonical ==
    LET t == IF arg # <<>> /\ arg[1] = "-" THEN Tail(arg) ELSE arg
    IN  (/\ ret # <<>>
         /\ \E d \in 2..(Len(t) - 1) :
               t[d] = "." /\ \A i \in (1..Len(t)) \ {d} : IsDigit(t[i]))
          => /\ ret[1] = ToNumeric(arg)
             /\ ret[2] = ret[1]

\* C14: the coercion of a text with a decimal comma, with or without dots that
\* group the thousands before it, is the number read with the dots dropped and
\* the comma as the decimal point: "1.234,56" gives 1234.56 and "0,45" gives 0.45.
C14_EuropeanGrouped ==
    LET t == IF arg # <<>> /\ arg[1] = "-" THEN Tail(arg) ELSE arg
    IN  (/\ ret # <<>>
         /\ \E c \in 2..(Len(t) - 1) :
               /\ t[c] = ","
               /\ IsDigit(t[1])
               /\ \A i \in 1..(c - 1) : IsDigit(t[i]) \/ t[i] = "."
               /\ \A i \in (c + 1)..Len(t) : IsDigit(t[i]))
          => ret[1] = ToNumeric(CommaToDot(Take(arg, {i \in 1..Len(arg) : arg[i] # "."})))

\* C15: for each field of load_and_prepare, if some header equals some alias
\* (letter case aside) the column found is a header equal to the first such alias;
\* if none does but some header contains an alias, it is the first header, in
\* column order, that contains the first alias any header contains; else None.
C15_ExactBeforeSubstring ==
    ret # <<>> =>
        \A key \in DOMAIN Aliases :
            LET cols  == [i \in 1..Len(arg) |-> Lower(RStrip(LStrip(arg[i])))]
                al    == [j \in 1..Len(Aliases[key]) |-> Lower(Aliases[key][j])]
                equal == {j \in 1..Len(al) : \E i \in 1..Len(cols) : cols[i] = al[j]}
                part  == {j \in 1..Len(al) : \E i \in 1..Len(cols) : Contains(cols[i], al[j])}
                col   == ret[1].detected[key]
            IN  IF equal # {}
                THEN \E i \in 1..Len(cols) :
                        col = RStrip(LStrip(arg[i])) /\ cols[i] = al[Min(equal)]
                ELSE IF part # {}
                THEN col = RStrip(LStrip(arg[
                               Min({i \in 1..Len(cols) : Contains(cols[i], al[Min(part)])})]))
                ELSE col = NoCol

\* with the headers TenPhuong and xa the name column is xa, equal to the fourth
\* alias, though the third alias "ten" is part of TenPhuong
C15_Witness ==
    /\ arg = <<<<"T", "e", "n", "P", "h", "u", "o", "n", "g">>, <<"x", "a">>,
               <<"l", "o", "n">>>>
    /\ ret # <<>>
    /\ ret[1].detected.name = <<"x", "a">>
    /\ ret[1].detected.lon = <<"l", "o", "n">>
    /\ ret[1].detected.ndvi = NoCol

\* C18: when several headers equal the same alias (letter case aside), the column
\* found for the field is the first of them in column order.
C18_TieToFirstHeader ==
    ret # <<>> =>
        \A key \in DOMAIN Aliases :
            LET cols  == [i \in 1..Len(arg) |-> Lower(RStrip(LStrip(arg[i])))]
                al    == [j \in 1..Len(Aliases[key]) |-> Lower(Aliases[key][j])]
                equal == {j \in 1..Len(al) : \E i \in 1..Len(cols) : cols[i] = al[j]}
            IN  equal # {} =>
                    ret[1].detected[key] =
                        RStrip(LStrip(arg[Min({i \in 1..Len(cols) : cols[i] = al[Min(equal)]})]))

\* C20: of the fields load_and_prepare detects, and of the indices _find_index_cols
\* maps, no two are resolved to the same header.
C20_NoHeaderForTwoFields ==
    (ret # <<>> /\ ret[1].error = "none") =>
        /\ \A f, g \in DOMAIN Aliases :
              (f # g /\ ret[1].detected[f] = ret[1].detected[g])
                => ret[1].detected[f] = NoCol
        /\ \A f, g \in DOMAIN ret[2] :
              (f # g /\ ret[2][f] = ret[2][g]) => ret[2][f] = NoCol

\* C16: after a rebuild, every row of a listed file whose longitude and latitude
\* columns, found by alias whatever the letter case of the header, hold a pair the
\* validation accepts is in the corpus with that pair and the date of its file.
C16_HeadersCaseInsensitive ==
    outcome.load = "rebuilt" =>
        \A f \in Listed(files) :
            LET c     == ReadCsv(files[f].content)
                lower == [j \in 1..Len(c.columns) |-> Lower(c.columns[j])]
                lon   == FirstCandidate(lower, LonCandidates)
                lat   == FirstCandidate(lower, LatCandidates)
            IN  \A k \in 1..Len(c.rows) :
                    LET xy == ValidateCoords(Get(lower, c.rows[k], lon),
                                             Get(lower, c.rows[k], lat))
                    IN  xy.ok =>
                            \E i \in 1..Len(df_long.rows) :
                                /\ df_long.rows[i].Lon = xy.lon
                                /\ df_long.rows[i].Lat = xy.lat
                                /\ df_long.rows[i].Date = FileDate(f, files[f].mtime)

\* C17: after a call that rebuilt, the corpus holds the rows the listed .csv files
\* give, each as many times as the files give it, and no other row.
C17_RebuildIsWholesale ==
    outcome.load = "rebuilt" =>
        \A given \in {ConcatFrames(files, SortedNames(Listed(files)))} :
            /\ Len(df_long.rows) = Len(given)
            /\ \A r \in SeqToSet(given) \cup SeqToSet(df_long.rows) :
                  Cardinality({i \in 1..Len(given) : given[i] = r})
                    = Cardinality({i \in 1..Len(given) : df_long.rows[i] = r})

\* a forced rebuild that replaced an earlier corpus, over a directory whose only
\* .csv file gives one row
C17_Witness ==
    /\ outcome.op = "load_all" /\ outcome.force
    /\ outcome.load = "rebuilt"
    /\ df_id = 2
    /\ files[f_dated].present /\ files[f_dated].content = "reversed"
    /\ ~files[f_garbage].present
    /\ Len(df_long.rows) = 1

\* C19: the rows of one file take their region code from one column: there is a
\* column, ma_xa or MaPhuong, such that every row of the file has as MaPhuong the
\* cell of that column (or nothing), whatever the cells are.
C19_OneHeaderPerField ==
    ret # <<>> =>
        /\ Len(ret[1]) = Len(arg)
        /\ \E col \in 1..2 :
              \A i \in 1..Len(arg) : ret[1][i].MaPhuong \in {arg[i][col], None}

\* C21: a call whose load_all raises (the directory cannot be listed, or a file
\* cannot be read) leaves df_long, the object it refers to and last_loaded_time
\* as they were before the call.
C21_FailedLoadKeepsCache ==
    [][outcome'.load = "raised"
         => /\ df_long' = df_long
            /\ df_id' = df_id
            /\ last_loaded_time' = last_loaded_time]_vars

\* a load_all that raised on an unreadable file while a corpus with rows was cached
C21_Witness ==
    /\ outcome.op = "load_all"
    /\ outcome.load = "raised" /\ outcome.error = "ReadError"
    /\ ~df_long.isNone
    /\ Len(df_long.rows) > 0
    /\ last_loaded_time # 0

\* C22: whenever load_all(force=False) returns the cached corpus over a directory a
\* rebuild could read, the corpus is the one a rebuild would make of the .csv files
\* the directory holds now.
C22_CacheNeverStale ==
    (/\ outcome.op = "load_all" /\ ~outcome.force
     /\ outcome.load = "cached"
     /\ dir_exists /\ ~ReadFails(files))
      => df_long = CorpusTable[files]

====
